---- MODULE Spec2Model ----
(***************************************************************************)
(* vsl: one invocation of the "run" command.  The command decides between  *)
(* script mode and flag mode (internal/app/commands/run: action), builds   *)
(* the bind mounts from the working directory and the enclosing git        *)
(* repository (internal/git: FindRoot, FindRealGitDir) and drives the      *)
(* container engine through create, start and wait (internal/container/run *)
(* : Run).                                                                 *)
(*                                                                         *)
(* Strings the code takes apart (paths, volume expressions, the content of *)
(* a .git file) are sequences of tokens: "/", ":", " ", "\n" and "~" are   *)
(* the separators the code looks for, every other token is a run of        *)
(* ordinary characters (a path segment, the word "gitdir:", ...).  Strings *)
(* the code only copies (image, user, command words) are TLA+ strings.     *)
(***************************************************************************)
EXTENDS Integers, Sequences, FiniteSets, TLC

\* Bounds of the model.
MaxDepth == 2
MaxArgs == 2

---------------------------------------------------------------------------
\* package strings

HasPrefix(s, p) == Len(s) >= Len(p) /\ SubSeq(s, 1, Len(p)) = p

TrimPrefix(s, p) == IF HasPrefix(s, p) THEN SubSeq(s, Len(p) + 1, Len(s)) ELSE s

IsSpace(t) == t \in {" ", "\t", "\r", "\n"}

RECURSIVE TrimLeft(_)
TrimLeft(s) == IF s # <<>> /\ IsSpace(s[1]) THEN TrimLeft(Tail(s)) ELSE s

RECURSIVE TrimRight(_)
TrimRight(s) ==
    IF s # <<>> /\ IsSpace(s[Len(s)]) THEN TrimRight(SubSeq(s, 1, Len(s) - 1)) ELSE s

TrimSpace(s) == TrimRight(TrimLeft(s))

\* strings.Index: position of the first occurrence of sub in s, 0 if none.
Index(s, sub) ==
    LET hits == {i \in 1..(Len(s) - Len(sub) + 1) : SubSeq(s, i, i + Len(sub) - 1) = sub}
    IN  IF hits = {} THEN 0 ELSE CHOOSE i \in hits : \A j \in hits : i <= j

Contains(s, sub) == Index(s, sub) # 0

\* strings.Split(s, sep) with a non-empty separator.
RECURSIVE Split(_, _)
Split(s, sep) ==
    LET i == Index(s, sep)
    IN  IF i = 0 THEN <<s>>
        ELSE <<SubSeq(s, 1, i - 1)>> \o Split(SubSeq(s, i + Len(sep), Len(s)), sep)

---------------------------------------------------------------------------
\* package path/filepath, on clean absolute paths

Slash == <<"/">>

\* filepath.Dir of a clean absolute path: the root is its own parent.
Dir(p) ==
    LET segs == Split(SubSeq(p, 2, Len(p)), Slash)
    IN  IF Len(segs) <= 1 THEN Slash
        ELSE SubSeq(p, 1, Len(p) - 2)

\* filepath.Join(dir, name) of a clean absolute dir and one segment.
Join(dir, name) == IF dir = Slash THEN Slash \o <<name>> ELSE dir \o Slash \o <<name>>


\* filepath.Clean of a "/"-separated path: empty and "." segments dropped,
\* ".." removes the segment before it (and is dropped at the root).
RECURSIVE CleanSegs(_, _, _)
CleanSegs(segs, out, rooted) ==
    IF segs = <<>> THEN out
    ELSE LET h == Head(segs)
         IN  IF h = <<>> \/ h = <<".">> THEN CleanSegs(Tail(segs), out, rooted)
             ELSE IF h = <<"..">> THEN
                 IF out # <<>> /\ out[Len(out)] # <<"..">>
                 THEN CleanSegs(Tail(segs), SubSeq(out, 1, Len(out) - 1), rooted)
                 ELSE IF rooted THEN CleanSegs(Tail(segs), out, rooted)
                 ELSE CleanSegs(Tail(segs), Append(out, h), rooted)
             ELSE CleanSegs(Tail(segs), Append(out, h), rooted)

RECURSIVE JoinSegs(_)
JoinSegs(segs) ==
    IF segs = <<>> THEN <<>>
    ELSE IF Len(segs) = 1 THEN segs[1]
    ELSE segs[1] \o Slash \o JoinSegs(Tail(segs))

Clean(p) ==
    IF p = <<>> THEN <<".">>
    ELSE LET rooted == p[1] = "/"
             body == JoinSegs(CleanSegs(Split(p, Slash), <<>>, rooted))
         IN  IF rooted THEN Slash \o body
             ELSE IF body = <<>> THEN <<".">> ELSE body

\* filepath.Join of two arbitrary elements: empty elements are ignored, the
\* result is cleaned.
JoinClean(a, b) ==
    IF a = <<>> /\ b = <<>> THEN <<>>
    ELSE IF a = <<>> THEN Clean(b)
    ELSE IF b = <<>> THEN Clean(a)
    ELSE Clean(a \o Slash \o b)

IsAbs(p) == HasPrefix(p, Slash)

---------------------------------------------------------------------------
\* The host and the invocation.

VARIABLES
    args,        \* positional arguments of the run command (c.Args())
    cli,         \* values of the command-line flags / environment variables
    argStat,     \* what os.Stat reports for the first positional argument
    scriptFile,  \* content of the file named by the first positional argument
    pwd,         \* the process's working directory (os.Getwd)
    home,        \* the user's home directory, <<>> when it cannot be determined
    absOk,       \* filepath.Abs succeeds (os.Getwd inside it does)
    fs,          \* host filesystem: path -> "dir" | "file" | "err"
    gitFile      \* the .git that is a regular file: whether it can be read, its content

VARIABLES
    pc,          \* position of the invocation
    cfg,         \* package-level run.Config filled by the flag parser
    runCfg,      \* the Config the runner was invoked with
    runCalls,    \* number of invocations of the runner
    mounts,      \* Run: mounts
    gitRoot,     \* Run: gitRoot
    created,     \* containerConfig and hostConfig handed to ContainerCreate
    engine,      \* operations of the engine client performed so far, in order
    containerID, \* Run: containerID
    cancelled,   \* the context of the invocation was cancelled by a signal
    delivery,    \* what the channels of ContainerWait hold ("" is nothing yet)
    waited,      \* what the select received
    result,      \* Run: the returned Result
    runErr,      \* the error returned by Run or by action ("" is nil)
    exit         \* outcome of the invocation: "" (running), "ok", "failed"

\* The functions of internal/git and internal/mount called on their own.
VARIABLES
    upc,         \* position: "idle", "FindRoot", "FindRealGitDir", "expandPath",
                 \* "ParseVolume", "done"
    volume,      \* the volume expression given to ParseVolume
    walkDir,     \* FindRoot: dir
    probes,      \* FindRoot: the directories whose .git was probed, in order
    rootFound,   \* FindRoot: the returned root and error
    gitDirFound, \* FindRealGitDir: the returned directory and error
    expanded,    \* expandPath: the result for the source of volume
    parsed       \* ParseVolume: the result

host == <<args, cli, argStat, scriptFile, pwd, home, absOk, fs, gitFile>>
unit == <<upc, volume, walkDir, probes, rootFound, gitDirFound, expanded, parsed>>
vars == <<args, cli, argStat, scriptFile, pwd, home, absOk, fs, gitFile, pc, cfg,
          runCfg, runCalls, mounts, gitRoot, created, engine, containerID, cancelled,
          delivery, waited, result, runErr, exit, upc, volume, walkDir, probes,
          rootFound, gitDirFound, expanded, parsed>>

\* os.Stat: the kind of the entry, "enoent" when there is none, "err" when the
\* probe fails for another reason (permission denied, I/O error), in which
\* case nothing is learnt about the entry.
Stat(p) == IF p \in DOMAIN fs THEN fs[p] ELSE "enoent"

StatOk(p) == Stat(p) \in {"dir", "file"}

---------------------------------------------------------------------------
\* internal/git

GitName == ".git"

\* FindRoot accepting only a .git directory as the marker.
RECURSIVE FindRootDirOnly(_)
FindRootDirOnly(dir) ==
    IF Stat(Join(dir, GitName)) = "dir" THEN [root |-> dir, err |-> ""]
    ELSE IF Dir(dir) = dir THEN [root |-> <<>>, err |-> "no git repository found"]
    ELSE FindRootDirOnly(Dir(dir))

RECURSIVE FindRoot(_)
FindRoot(dir) ==
    IF StatOk(Join(dir, GitName)) THEN [root |-> dir, err |-> ""]
    ELSE IF Dir(dir) = dir THEN [root |-> <<>>, err |-> "no git repository found"]
    ELSE FindRoot(Dir(dir))

GitdirPrefix == <<"gitdir:", " ">>
WorktreesSep == <<"/", "worktrees", "/">>

\* The loop over the lines of the .git file, from line i on.
RECURSIVE ScanGitFile(_, _, _)
ScanGitFile(lines, i, gitPath) ==
    IF i > Len(lines) THEN gitPath
    ELSE IF HasPrefix(lines[i], GitdirPrefix) THEN
        LET worktreeGitDir == TrimSpace(TrimPrefix(lines[i], <<"gitdir:">>))
        IN  IF Contains(worktreeGitDir, WorktreesSep)
            THEN Split(worktreeGitDir, WorktreesSep)[1]
            ELSE worktreeGitDir
    ELSE ScanGitFile(lines, i + 1, gitPath)

\* FindRealGitDir that never reads a .git file.
FindRealGitDirNoIndirection(root) ==
    LET gitPath == Join(root, GitName)
    IN  IF ~StatOk(gitPath) THEN [dir |-> <<>>, err |-> "stat"]
        ELSE [dir |-> gitPath, err |-> ""]

FindRealGitDir(root) ==
    LET gitPath == Join(root, GitName)
    IN  IF ~StatOk(gitPath) THEN [dir |-> <<>>, err |-> "stat"]
        ELSE IF Stat(gitPath) = "dir" THEN [dir |-> gitPath, err |-> ""]
        ELSE IF ~gitFile.readable THEN [dir |-> <<>>, err |-> "open"]
        ELSE [dir |-> ScanGitFile(Split(gitFile.content, <<"\n">>), 1, gitPath), err |-> ""]

---------------------------------------------------------------------------
\* internal/mount

NoMount == [Type |-> "", Source |-> <<>>, Target |-> <<>>, ReadOnly |-> FALSE]

expandPath(path) ==
    IF HasPrefix(path, <<"~", "/">>) /\ home # <<>>
    THEN JoinClean(home, SubSeq(path, 3, Len(path)))
    ELSE IF ~IsAbs(path) /\ absOk THEN JoinClean(pwd, path)
    ELSE path

\* ParseVolume that takes a third segment "ro" as the marker whatever follows it.
ParseVolumeRoAnyLength(vol) ==
    LET parts == Split(vol, <<":">>)
    IN  IF Len(parts) < 2 THEN NoMount
        ELSE LET source == expandPath(parts[1])
                 readonly == Len(parts) >= 3 /\ parts[3] = <<"ro">>
             IN  IF ~StatOk(source) THEN NoMount
                 ELSE [Type |-> "bind", Source |-> source, Target |-> parts[2],
                       ReadOnly |-> readonly]

\* NoMount stands for the nil result.
ParseVolume(vol) ==
    LET parts == Split(vol, <<":">>)
    IN  IF Len(parts) < 2 THEN NoMount
        ELSE LET source == expandPath(parts[1])
                 readonly == Len(parts) = 3 /\ parts[3] = <<"ro">>
             IN  IF ~StatOk(source) THEN NoMount
                 ELSE [Type |-> "bind", Source |-> source, Target |-> parts[2],
                       ReadOnly |-> readonly]


---------------------------------------------------------------------------
\* internal/container/run: Config

ZeroConfig ==
    [Image |-> <<>>, Command |-> <<>>, Entrypoint |-> <<>>, WorkingDir |-> <<>>,
     Environment |-> <<>>, Volumes |-> <<>>, User |-> <<>>, NetworkMode |-> <<>>,
     Interactive |-> FALSE, NoGit |-> FALSE, Privileged |-> FALSE,
     ScriptPath |-> <<>>, ScriptArgs |-> <<>>]

---------------------------------------------------------------------------
\* internal/script
\* A document value is a scalar (s), a list (l: values) or a block (l: entries
\* [k, v]); a line of the file is the interpreter line, a node or unparsable.

Scalar(x) == [t |-> "scalar", s |-> x, l |-> <<>>]
List(items) == [t |-> "list", s |-> <<>>, l |-> items]
Block(entries) == [t |-> "block", s |-> <<>>, l |-> entries]
Node(key, value) == [kind |-> "node", key |-> key, value |-> value]
Shebang == [kind |-> "shebang", key |-> "", value |-> Scalar(<<>>)]
BadLine == [kind |-> "bad", key |-> "", value |-> Scalar(<<>>)]

\* The strings among the items, in order.
RECURSIVE Scalars(_)
Scalars(items) ==
    IF items = <<>> THEN <<>>
    ELSE IF Head(items).t = "scalar" THEN <<Head(items).s>> \o Scalars(Tail(items))
    ELSE Scalars(Tail(items))

extractList(value) == IF value.t = "list" THEN Scalars(value.l) ELSE <<>>

\* Block entries are visited in the order of the sequence (a Go map has no
\* order; the documents of this model have at most one entry).
RECURSIVE EnvOfBlock(_)
EnvOfBlock(entries) ==
    IF entries = <<>> THEN <<>>
    ELSE IF Head(entries).v.t = "scalar"
         THEN <<Head(entries).k \o <<"=">> \o Head(entries).v.s>> \o EnvOfBlock(Tail(entries))
         ELSE EnvOfBlock(Tail(entries))

extractEnvironment(value) ==
    IF value.t = "list" THEN Scalars(value.l)
    ELSE IF value.t = "block" THEN EnvOfBlock(value.l)
    ELSE <<>>

\* One iteration of the switch over node.Key.
ApplyNode(config, node) ==
    LET v == node.value
        isStr == v.t = "scalar"
    IN  CASE node.key = "image" ->
                IF isStr THEN [config EXCEPT !.Image = v.s] ELSE config
          [] node.key = "command" ->
                [config EXCEPT !.Command = @ \o extractList(v)]
          [] node.key = "entrypoint" ->
                [config EXCEPT !.Entrypoint = @ \o extractList(v)]
          [] node.key \in {"workdir", "working_dir"} ->
                IF isStr THEN [config EXCEPT !.WorkingDir = v.s] ELSE config
          [] node.key \in {"env", "environment"} ->
                [config EXCEPT !.Environment = @ \o extractEnvironment(v)]
          [] node.key \in {"volume", "volumes"} ->
                [config EXCEPT !.Volumes = @ \o extractList(v)]
          [] node.key = "user" ->
                IF isStr THEN [config EXCEPT !.User = v.s] ELSE config
          [] node.key = "interactive" ->
                IF isStr THEN [config EXCEPT !.Interactive = (v.s = <<"true">>)] ELSE config
          [] node.key = "privileged" ->
                IF isStr THEN [config EXCEPT !.Privileged = (v.s = <<"true">>)] ELSE config
          [] node.key = "network_mode" ->
                IF isStr THEN [config EXCEPT !.NetworkMode = v.s] ELSE config
          [] OTHER -> config

RECURSIVE ApplyNodes(_, _)
ApplyNodes(config, nodes) ==
    IF nodes = <<>> THEN config
    ELSE ApplyNodes(ApplyNode(config, Head(nodes)), Tail(nodes))

\* up.Parser.ParseDocument: the nodes of the document, or an error when a line
\* is not a node.
ParseDocument(lines) ==
    IF \E i \in 1..Len(lines) : lines[i].kind # "node"
    THEN [err |-> "failed to parse UP document", nodes |-> <<>>]
    ELSE [err |-> "", nodes |-> lines]

\* ParseFile without the check of the image.
ParseFileNoImageCheck(file) ==
    IF ~file.readable THEN [err |-> "open", config |-> ZeroConfig]
    ELSE LET content == IF Len(file.lines) > 0 /\ file.lines[1].kind = "shebang"
                        THEN Tail(file.lines) ELSE file.lines
             doc == ParseDocument(content)
         IN  IF doc.err # "" THEN [err |-> doc.err, config |-> ZeroConfig]
             ELSE [err |-> "", config |-> ApplyNodes(ZeroConfig, doc.nodes)]

\* ParseFile on the file named by the first positional argument.
ParseFile(file) ==
    IF ~file.readable THEN [err |-> "open", config |-> ZeroConfig]
    ELSE LET content == IF Len(file.lines) > 0 /\ file.lines[1].kind = "shebang"
                        THEN Tail(file.lines) ELSE file.lines
             doc == ParseDocument(content)
             config == ApplyNodes(ZeroConfig, doc.nodes)
         IN  IF doc.err # "" THEN [err |-> doc.err, config |-> ZeroConfig]
             ELSE IF config.Image = <<>>
                  THEN [err |-> "script must specify image", config |-> ZeroConfig]
             ELSE [err |-> "", config |-> config]

---------------------------------------------------------------------------
\* internal/app/commands/run

\* flags: only the flags with a Destination reach cfg; --env, --volume and
\* --entrypoint have none and are read nowhere.
FlagBinding(c) ==
    [ZeroConfig EXCEPT !.Image = c.image, !.NoGit = c.noGit,
                       !.Interactive = c.interactive, !.WorkingDir = c.workingDir,
                       !.User = c.user, !.NetworkMode = c.networkMode,
                       !.Privileged = c.privileged]

\* The script branch taken for any file, parsed or not.
ScriptModeNoParseCheck ==
    /\ Len(args) > 0
    /\ argStat = "file"

\* The condition under which action takes the script branch.
ScriptMode ==
    /\ Len(args) > 0
    /\ argStat = "file"
    /\ ParseFile(scriptFile).err = ""

---------------------------------------------------------------------------
\* internal/container/run: Run

ZeroResult ==
    [Success |-> FALSE, ContainerID |-> <<>>, Image |-> <<>>, WorkingDir |-> <<>>,
     Mounts |-> <<>>, GitRoot |-> <<>>, ScriptPath |-> <<>>, Message |-> ""]

BindMount(source, target) ==
    [Type |-> "bind", Source |-> source, Target |-> target, ReadOnly |-> FALSE]

\* The mounts of FindRealGitDir's outcome for a found root.
RealGitDirMounts(root) ==
    LET realGitDir == FindRealGitDir(root)
        gitDirPath == Join(root, GitName)
    IN  IF realGitDir.err = "" /\ realGitDir.dir # <<>> /\ realGitDir.dir # gitDirPath
        THEN <<BindMount(realGitDir.dir, gitDirPath)>>
        ELSE <<>>

\* Discover with the working-directory mount dropped when discovery is suppressed.
DiscoverNoBaseWhenNoGit(c, wd) ==
    LET base == IF c.NoGit THEN <<>> ELSE <<BindMount(wd, wd)>>
        found == FindRoot(wd)
    IN  IF ~c.NoGit /\ found.err = "" /\ found.root # <<>> /\ found.root # wd
        THEN [gitRoot |-> found.root,
              mounts |-> base \o <<BindMount(found.root, found.root)>>
                             \o RealGitDirMounts(found.root)]
        ELSE [gitRoot |-> <<>>, mounts |-> base]

\* Discover without the comparison of the root with the working directory.
DiscoverAnyRoot(c, wd) ==
    LET base == <<BindMount(wd, wd)>>
        found == FindRoot(wd)
    IN  IF ~c.NoGit /\ found.err = "" /\ found.root # <<>>
        THEN [gitRoot |-> found.root,
              mounts |-> base \o <<BindMount(found.root, found.root)>>
                             \o RealGitDirMounts(found.root)]
        ELSE [gitRoot |-> <<>>, mounts |-> base]

\* The base mounts and the git repository discovery of Run.
Discover(c, wd) ==
    LET base == <<BindMount(wd, wd)>>
        found == FindRoot(wd)
    IN  IF ~c.NoGit /\ found.err = "" /\ found.root # <<>> /\ found.root # wd
        THEN [gitRoot |-> found.root,
              mounts |-> base \o <<BindMount(found.root, found.root)>>
                             \o RealGitDirMounts(found.root)]
        ELSE [gitRoot |-> <<>>, mounts |-> base]

\* ContainerSpec without the script arguments appended to the command.
ContainerSpecNoScriptArgs(c, wd, ms) ==
    [Image |-> c.Image,
     Cmd |-> c.Command,
     Entrypoint |-> c.Entrypoint,
     WorkingDir |-> IF c.WorkingDir = <<>> THEN wd ELSE c.WorkingDir,
     Env |-> c.Environment,
     User |-> c.User,
     Tty |-> c.Interactive,
     OpenStdin |-> c.Interactive,
     Mounts |-> ms,
     AutoRemove |-> TRUE,
     Privileged |-> c.Privileged,
     NetworkMode |-> c.NetworkMode]

\* containerConfig and hostConfig as Run fills them.
ContainerSpec(c, wd, ms) ==
    [Image |-> c.Image,
     Cmd |-> IF c.ScriptPath # <<>> THEN c.Command \o c.ScriptArgs ELSE c.Command,
     Entrypoint |-> c.Entrypoint,
     WorkingDir |-> IF c.WorkingDir = <<>> THEN wd ELSE c.WorkingDir,
     Env |-> c.Environment,
     User |-> c.User,
     Tty |-> c.Interactive,
     OpenStdin |-> c.Interactive,
     Mounts |-> ms,
     AutoRemove |-> TRUE,
     Privileged |-> c.Privileged,
     NetworkMode |-> c.NetworkMode]

NoSpec == ContainerSpec(ZeroConfig, <<>>, <<>>)

MountInfo(ms) == [i \in 1..Len(ms) |-> [Source |-> ms[i].Source, Target |-> ms[i].Target]]


---------------------------------------------------------------------------
\* The invocations and hosts explored.

DirNames == <<"home", "u", "proj", "src", "pkg", "lib">>

\* The directory n levels below the filesystem root: "/", "/home", "/home/u", ...
RECURSIVE PathAt(_)
PathAt(n) == IF n = 0 THEN Slash ELSE Join(PathAt(n - 1), DirNames[n])

HomeDir == <<"/", "root">>
DataDir == <<"/", "data">>
StoreDir == <<"/", "store">>

MarkerKinds == {"none", "dir", "file", "err"}

\* A host whose working directory is d levels deep, with the .git entry mk[i]
\* in the directory at level i.
HostFs(d, mk) ==
    LET dirs == {PathAt(i) : i \in 0..d} \cup {HomeDir, DataDir, StoreDir}
        marked == {i \in 0..d : mk[i] # "none"}
        markers == {Join(PathAt(i), GitName) : i \in marked}
    IN  [p \in dirs \cup markers |->
            IF p \in markers
            THEN mk[CHOOSE i \in marked : Join(PathAt(i), GitName) = p]
            ELSE "dir"]

GitFiles ==
    {[readable |-> TRUE,
      content |-> <<"gitdir:", " ", "/", "store", "/", "worktrees", "/", "x", "\n">>],
     [readable |-> TRUE, content |-> <<"gitdir:", " ", "/", "store", "\n">>],
     [readable |-> TRUE, content |-> <<"ref", "\n">>],
     [readable |-> FALSE, content |-> <<>>]}

NoFile == [readable |-> FALSE, lines |-> <<>>]

FullScript ==
    <<Shebang,
      Node("image", Scalar(<<"ubuntu">>)),
      Node("command", List(<<Scalar(<<"echo">>), Scalar(<<"hi">>)>>)),
      Node("entrypoint", List(<<Scalar(<<"sh">>)>>)),
      Node("workdir", Scalar(<<"/", "w">>)),
      Node("env", List(<<Scalar(<<"K", "=", "V">>)>>)),
      Node("volumes", List(<<Scalar(<<"/", "data", ":", "/", "mnt", ":", "ro">>),
                             Scalar(<<"nosuch", ":", "/", "x">>),
                             Scalar(<<"/", "data">>)>>)),
      Node("user", Scalar(<<"dev">>)),
      Node("interactive", Scalar(<<"true">>)),
      Node("privileged", Scalar(<<"true">>)),
      Node("network_mode", Scalar(<<"host">>)),
      Node("labels", Scalar(<<"x">>))>>

MinimalScript ==
    <<Node("image", Scalar(<<"ubuntu">>)),
      Node("environment", Block(<<[k |-> <<"K">>, v |-> Scalar(<<"V">>)]>>)),
      Node("interactive", Scalar(<<"yes">>))>>

NoImageScript ==
    <<Shebang,
      Node("command", List(<<Scalar(<<"echo">>)>>)),
      Node("volume", List(<<Scalar(<<"/", "data", ":", "/", "mnt">>)>>))>>

BadScript == <<Node("image", Scalar(<<"ubuntu">>)), BadLine>>

ScriptFiles ==
    {[readable |-> TRUE, lines |-> FullScript],
     [readable |-> TRUE, lines |-> MinimalScript],
     [readable |-> TRUE, lines |-> NoImageScript],
     [readable |-> TRUE, lines |-> BadScript],
     NoFile}

\* Flag values: nothing but the defaults, an image, and every flag set.
CliFlags ==
    {[image |-> <<>>, noGit |-> FALSE, interactive |-> TRUE, workingDir |-> <<>>,
      user |-> <<>>, env |-> <<>>, volume |-> <<>>, entrypoint |-> <<>>,
      networkMode |-> <<>>, privileged |-> FALSE],
     [image |-> <<"alpine">>, noGit |-> FALSE, interactive |-> TRUE, workingDir |-> <<>>,
      user |-> <<>>, env |-> <<>>, volume |-> <<<<"/", "data", ":", "/", "mnt">>>>,
      entrypoint |-> <<>>, networkMode |-> <<>>, privileged |-> FALSE],
     [image |-> <<"alpine">>, noGit |-> TRUE, interactive |-> FALSE,
      workingDir |-> <<"/", "fw">>, user |-> <<"root">>, env |-> <<<<"F", "=", "1">>>>,
      volume |-> <<<<"~", "/", "x", ":", "/", "x">>>>, entrypoint |-> <<<<"bash">>>>,
      networkMode |-> <<"none">>, privileged |-> TRUE]}

\* No argument, or a first word followed by up to MaxArgs - 1 further words.
\* What the first word names on the host is argStat and scriptFile.
ArgLists ==
    {<<>>} \cup {<<<<"s.up">>>> \o [i \in 1..n |-> <<"arg">>] : n \in 0..(MaxArgs - 1)}

\* Nothing of the invocation has happened.
LaunchInit ==
    /\ runCfg = ZeroConfig
    /\ runCalls = 0
    /\ mounts = <<>>
    /\ gitRoot = <<>>
    /\ created = NoSpec
    /\ engine = <<>>
    /\ containerID = <<>>
    /\ cancelled = FALSE
    /\ delivery = ""
    /\ waited = ""
    /\ result = ZeroResult
    /\ runErr = ""
    /\ exit = ""

NoRoot == [root |-> <<>>, err |-> "unset"]
NoGitDir == [dir |-> <<>>, err |-> "unset"]

\* No function is called on its own.
UnitIdle ==
    /\ volume = <<>>
    /\ walkDir = <<>>
    /\ probes = <<>>
    /\ rootFound = NoRoot
    /\ gitDirFound = NoGitDir
    /\ expanded = <<>>
    /\ parsed = NoMount

NoGitFile == [readable |-> FALSE, content |-> <<>>]

Init ==
    /\ args \in ArgLists
    /\ cli \in CliFlags
    /\ argStat \in {"enoent", "dir", "file"}
    /\ args = <<>> => argStat = "enoent"
    /\ scriptFile \in ScriptFiles
    /\ argStat # "file" => scriptFile = NoFile
    /\ \E d \in 0..MaxDepth : \E mk \in [0..d -> MarkerKinds] :
          /\ pwd = PathAt(d)
          /\ fs = HostFs(d, mk)
          /\ gitFile \in GitFiles
          /\ (\A i \in 0..d : mk[i] # "file") => gitFile = NoGitFile
    /\ home = HomeDir
    /\ absOk = TRUE
    /\ pc = "action"
    /\ cfg = FlagBinding(cli)
    /\ LaunchInit
    /\ upc = "idle"
    /\ UnitIdle

---------------------------------------------------------------------------
\* The steps of the invocation.

\* An operation of the engine client and whether it returned without error.
\* (The deferred Close of the docker client returns nil in every case.)
Call(op, ok) == [op |-> op, ok |-> ok]

\* Run returns (res, e); app.Action passes the error on and runApp exits 1 on
\* it.  (The writing of the result by app.Output is not part of the model.)
Return(res, e) ==
    /\ result' = res
    /\ runErr' = e
    /\ pc' = "done"
    /\ exit' = IF e = "" THEN "ok" ELSE "failed"

\* app.Action(c, config, runAction): the runner is entered with config.
Invoke(config) ==
    /\ runCfg' = config
    /\ runCalls' = runCalls + 1
    /\ pc' = "NewClient"
    /\ UNCHANGED <<result, runErr, exit>>

\* commands/run: action.
action ==
    /\ UNCHANGED unit
    /\ pc = "action"
    /\ IF ScriptMode
       THEN /\ Invoke([ParseFile(scriptFile).config EXCEPT
                          !.ScriptPath = args[1], !.ScriptArgs = Tail(args)])
            /\ UNCHANGED cfg
       ELSE /\ cfg' = [cfg EXCEPT !.Command = @ \o args]
            /\ IF cfg'.Image = <<>>
               THEN /\ Return(ZeroResult, "--image flag is required")
                    /\ UNCHANGED <<runCfg, runCalls>>
               ELSE Invoke(cfg')
    /\ UNCHANGED <<host, mounts, gitRoot, created, engine, containerID, cancelled,
                   delivery, waited>>

\* Run: client.NewClientWithOpts.
RunNewClient ==
    /\ UNCHANGED unit
    /\ pc = "NewClient"
    /\ \E ok \in BOOLEAN :
          /\ engine' = Append(engine, Call("NewClient", ok))
          /\ IF ok THEN /\ pc' = "Create"
                        /\ UNCHANGED <<result, runErr, exit>>
             ELSE Return(ZeroResult, "failed to create docker client")
    /\ UNCHANGED <<host, cfg, runCfg, runCalls, mounts, gitRoot, created, containerID,
                   cancelled, delivery, waited>>

\* Run: os.Getwd, the mounts, the container configuration, ContainerCreate.
RunCreate ==
    /\ UNCHANGED unit
    /\ pc = "Create"
    /\ \E getwdOk \in BOOLEAN :
          IF ~getwdOk
          THEN /\ Return(ZeroResult, "failed to get current directory")
               /\ engine' = Append(engine, Call("Close", TRUE))
               /\ UNCHANGED <<mounts, gitRoot, created, containerID>>
          ELSE LET found == Discover(runCfg, pwd)
               IN  /\ mounts' = found.mounts
                   /\ gitRoot' = found.gitRoot
                   /\ created' = ContainerSpec(runCfg, pwd, found.mounts)
                   /\ \E ok \in BOOLEAN :
                         IF ok THEN /\ containerID' = <<"c1">>
                                    /\ pc' = "Start"
                                    /\ engine' = Append(engine, Call("ContainerCreate", TRUE))
                                    /\ UNCHANGED <<result, runErr, exit>>
                         ELSE /\ Return(ZeroResult, "failed to create container")
                              /\ engine' = engine \o <<Call("ContainerCreate", FALSE),
                                                        Call("Close", TRUE)>>
                              /\ UNCHANGED containerID
    /\ UNCHANGED <<host, cfg, runCfg, runCalls, cancelled, delivery, waited>>

\* RunStart going on to the wait although the start failed.
RunStartIgnoringError ==
    /\ UNCHANGED unit
    /\ pc = "Start"
    /\ \E ok \in BOOLEAN :
          /\ pc' = "Wait"
          /\ engine' = Append(engine, Call("ContainerStart", ok))
          /\ UNCHANGED <<result, runErr, exit>>
    /\ UNCHANGED <<host, cfg, runCfg, runCalls, mounts, gitRoot, created, containerID,
                   cancelled, delivery, waited>>

\* Run: ContainerStart.
RunStart ==
    /\ UNCHANGED unit
    /\ pc = "Start"
    /\ \E ok \in BOOLEAN :
          IF ok THEN /\ pc' = "Wait"
                     /\ engine' = Append(engine, Call("ContainerStart", TRUE))
                     /\ UNCHANGED <<result, runErr, exit>>
          ELSE /\ Return(ZeroResult, "failed to start container")
               /\ engine' = engine \o <<Call("ContainerStart", FALSE), Call("Close", TRUE)>>
    /\ UNCHANGED <<host, cfg, runCfg, runCalls, mounts, gitRoot, created, containerID,
                   cancelled, delivery, waited>>

\* What the select on errCh and statusCh receives: a wait error, a nil on the
\* error channel, or a status (exit code 0, non-zero, or carrying an error).
WaitOutcomes == {"err", "nil", "status0", "status1", "statusError"}

\* The engine's side of ContainerWait: the container stops running, or the
\* wait fails, and the outcome is put on statusCh or errCh.
EngineDeliver ==
    /\ UNCHANGED unit
    /\ pc = "Wait"
    /\ delivery = ""
    /\ \E w \in WaitOutcomes : delivery' = w
    /\ UNCHANGED <<host, pc, cfg, runCfg, runCalls, mounts, gitRoot, created, engine,
                   containerID, cancelled, waited, result, runErr, exit>>

\* runApp: an interrupt cancels the context of the invocation while Run
\* waits; the engine client reports the cancellation on errCh.  (A signal
\* before the wait shows as the failure of the engine operation under way.)
Interrupt ==
    /\ UNCHANGED unit
    /\ pc = "Wait"
    /\ delivery = ""
    /\ ~cancelled
    /\ cancelled' = TRUE
    /\ delivery' = "err"
    /\ UNCHANGED <<host, pc, cfg, runCfg, runCalls, mounts, gitRoot, created, engine,
                   containerID, waited, result, runErr, exit>>

\* RunWait receiving from statusCh only.
RunWaitStatusOnly ==
    /\ UNCHANGED unit
    /\ pc = "Wait"
    /\ delivery \notin {"", "err", "nil"}
    /\ waited' = delivery
    /\ engine' = engine \o <<Call("ContainerWait", TRUE), Call("Close", TRUE)>>
    /\ Return([Success |-> TRUE,
               ContainerID |-> containerID,
               Image |-> created.Image,
               WorkingDir |-> created.WorkingDir,
               Mounts |-> MountInfo(mounts),
               GitRoot |-> gitRoot,
               ScriptPath |-> runCfg.ScriptPath,
               Message |-> "Container executed successfully"], "")
    /\ UNCHANGED <<host, cfg, runCfg, runCalls, mounts, gitRoot, created, containerID,
                   cancelled, delivery>>

\* RunWait treating a status with a non-zero exit code or an error as a failure.
RunWaitCheckingStatus ==
    /\ UNCHANGED unit
    /\ pc = "Wait"
    /\ delivery # ""
    /\ waited' = delivery
    /\ engine' = engine \o <<Call("ContainerWait", delivery # "err"), Call("Close", TRUE)>>
    /\ IF delivery \in {"err", "status1", "statusError"}
       THEN Return(ZeroResult, "error waiting for container")
       ELSE Return([Success |-> TRUE,
                    ContainerID |-> containerID,
                    Image |-> created.Image,
                    WorkingDir |-> created.WorkingDir,
                    Mounts |-> MountInfo(mounts),
                    GitRoot |-> gitRoot,
                    ScriptPath |-> runCfg.ScriptPath,
                    Message |-> "Container executed successfully"], "")
    /\ UNCHANGED <<host, cfg, runCfg, runCalls, mounts, gitRoot, created, containerID,
                   cancelled, delivery>>

\* Run: ContainerWait, the select once a channel delivers, and the Result.
RunWait ==
    /\ UNCHANGED unit
    /\ pc = "Wait"
    /\ delivery # ""
    /\ waited' = delivery
    /\ engine' = engine \o <<Call("ContainerWait", delivery # "err"), Call("Close", TRUE)>>
    /\ IF delivery = "err"
       THEN Return(ZeroResult, "error waiting for container")
       ELSE Return([Success |-> TRUE,
                    ContainerID |-> containerID,
                    Image |-> created.Image,
                    WorkingDir |-> created.WorkingDir,
                    Mounts |-> MountInfo(mounts),
                    GitRoot |-> gitRoot,
                    ScriptPath |-> runCfg.ScriptPath,
                    Message |-> "Container executed successfully"], "")
    /\ UNCHANGED <<host, cfg, runCfg, runCalls, mounts, gitRoot, created, containerID,
                   cancelled, delivery>>

Next ==
    action \/ RunNewClient \/ RunCreate \/ RunStart \/ EngineDeliver \/ Interrupt \/ RunWait

Spec == Init /\ [][Next]_vars

\* A select with a ready channel proceeds.
LiveSpec == Spec /\ WF_vars(RunWait)

---------------------------------------------------------------------------
\* The functions of internal/git and internal/mount, each called on its own.

launch == <<pc, cfg, runCfg, runCalls, mounts, gitRoot, created, engine, containerID,
            cancelled, delivery, waited, result, runErr, exit>>

GoneDir == <<"/", "gone">>

\* Contents of a .git file.
UnitGitFiles ==
    GitFiles \cup
    {[readable |-> TRUE, content |-> c] : c \in
        {<<"gitdir:", " ", " ", "/", "store", "/", "worktrees", "/", "x", " ", "\r", "\n">>,
         <<"gitdir:", " ", "..", "/", "store", "/", "worktrees", "/", "x", "\n">>,
         <<"gitdir:", " ", "/", "gone", "\n">>,
         <<"ref", "\n", "gitdir:", " ", "/", "data", "\n", "gitdir:", " ", "/", "store", "\n">>,
         <<"gitdir:", " ", "/", "store", "/", "worktrees", "/", "a", "/", "worktrees", "/",
           "b", "\n">>,
         <<" ", "gitdir:", " ", "/", "store", "\n">>,
         <<"gitdir:", " ", "/", "worktrees", "/", "x", "\n">>}}

\* Volume expressions.
Volumes ==
    {<<"/", "data", ":", "/", "mnt">>,
     <<"/", "data", ":", "/", "mnt", ":", "ro">>,
     <<"/", "data", ":", "/", "mnt", ":", "rw">>,
     <<"/", "data", ":", "/", "mnt", ":", "ro", ":", "z">>,
     <<"/", "data", ":", "/", "mnt", ":", "z", ":", "ro">>,
     <<"/", "data", ":">>,
     <<"/", "data">>,
     <<"/", "gone", ":", "/", "mnt">>,
     <<>>,
     <<":", "/", "mnt">>,
     <<".git", ":", "/", "g", ":", "ro">>,
     <<"..", "/", "data", ":", "/", "mnt">>,
     <<"~", "/", ":", "/", "h">>,
     <<"~", "/", "x", ":", "/", "x">>,
     <<"~", "/", "..", "/", "data", ":", "/", "mnt", ":", "ro">>,
     <<"~", ":", "/", "h">>}

UnitInit ==
    /\ args = <<>>
    /\ cli = CHOOSE c \in CliFlags : TRUE
    /\ argStat = "enoent"
    /\ scriptFile = NoFile
    /\ pc = "idle"
    /\ cfg = ZeroConfig
    /\ LaunchInit
    /\ \E d \in 0..MaxDepth : \E mk \in [0..d -> MarkerKinds] :
          /\ pwd = PathAt(d)
          /\ fs = HostFs(d, mk)
          /\ \/ /\ upc = "FindRoot"
                /\ gitFile \in UnitGitFiles
                /\ (\A i \in 0..d : mk[i] # "file") => gitFile = NoGitFile
                /\ home = HomeDir
                /\ absOk = TRUE
                /\ volume = <<>>
                /\ walkDir = pwd
             \/ /\ upc = "expandPath"
                /\ gitFile = NoGitFile
                /\ home \in {HomeDir, <<>>}
                /\ absOk \in BOOLEAN
                /\ volume \in Volumes
                /\ walkDir = <<>>
    /\ probes = <<>>
    /\ rootFound = NoRoot
    /\ gitDirFound = NoGitDir
    /\ expanded = <<>>
    /\ parsed = NoMount

\* One iteration of FindRoot's loop that goes on above a marker.
FindRootStepPastMarker ==
    /\ upc = "FindRoot"
    /\ probes' = Append(probes, walkDir)
    /\ LET gitPath == Join(walkDir, GitName)
           here == IF StatOk(gitPath) THEN [root |-> walkDir, err |-> ""] ELSE rootFound
       IN  IF Dir(walkDir) = walkDir
           THEN /\ rootFound' = IF here.err = "" THEN here
                                ELSE [root |-> <<>>, err |-> "no git repository found"]
                /\ upc' = IF here.err = "" THEN "FindRealGitDir" ELSE "done"
                /\ UNCHANGED walkDir
           ELSE /\ rootFound' = here
                /\ walkDir' = Dir(walkDir)
                /\ UNCHANGED upc
    /\ UNCHANGED <<host, launch, volume, gitDirFound, expanded, parsed>>

\* One iteration of FindRoot's loop.
FindRootStep ==
    /\ upc = "FindRoot"
    /\ probes' = Append(probes, walkDir)
    /\ LET gitPath == Join(walkDir, GitName)
       IN  IF StatOk(gitPath)
           THEN /\ rootFound' = [root |-> walkDir, err |-> ""]
                /\ upc' = "FindRealGitDir"
                /\ UNCHANGED walkDir
           ELSE IF Dir(walkDir) = walkDir
           THEN /\ rootFound' = [root |-> <<>>, err |-> "no git repository found"]
                /\ upc' = "done"
                /\ UNCHANGED walkDir
           ELSE /\ walkDir' = Dir(walkDir)
                /\ UNCHANGED <<rootFound, upc>>
    /\ UNCHANGED <<host, launch, volume, gitDirFound, expanded, parsed>>

FindRealGitDirCall ==
    /\ upc = "FindRealGitDir"
    /\ gitDirFound' = FindRealGitDir(rootFound.root)
    /\ upc' = "done"
    /\ UNCHANGED <<host, launch, volume, walkDir, probes, rootFound, expanded, parsed>>

\* expandPath on the source segment of the volume expression.
expandPathCall ==
    /\ upc = "expandPath"
    /\ expanded' = expandPath(Split(volume, <<":">>)[1])
    /\ upc' = "ParseVolume"
    /\ UNCHANGED <<host, launch, volume, walkDir, probes, rootFound, gitDirFound, parsed>>

ParseVolumeCall ==
    /\ upc = "ParseVolume"
    /\ parsed' = ParseVolume(volume)
    /\ upc' = "done"
    /\ UNCHANGED <<host, launch, volume, walkDir, probes, rootFound, gitDirFound, expanded>>

UnitNext == FindRootStep \/ FindRealGitDirCall \/ expandPathCall \/ ParseVolumeCall

UnitSpec == UnitInit /\ [][UnitNext]_vars

\* The loop of FindRoot runs on.
UnitLiveSpec == UnitSpec /\ WF_vars(FindRootStep)


---------------------------------------------------------------------------
\* Vocabulary of the properties.

Did(op) == \E i \in 1..Len(engine) : engine[i].op = op
DidOk(op) == \E i \in 1..Len(engine) : engine[i].op = op /\ engine[i].ok
Failed(op) == \E i \in 1..Len(engine) : engine[i].op = op /\ ~engine[i].ok

\* A launch specification has been handed to the engine (it is in created).
Handed == Did("ContainerCreate")

\* The first positional argument is an existing non-directory file that loads
\* as a launch script.
FirstArgIsScript ==
    Len(args) > 0 /\ argStat = "file" /\ ParseFile(scriptFile).err = ""

ScriptConfig == ParseFile(scriptFile).config

\* The volume expressions the user supplied through the authoritative source.
UserVolumes == IF FirstArgIsScript THEN ScriptConfig.Volumes ELSE cli.volume

HasBinding(ms, source, target) ==
    \E j \in 1..Len(ms) : ms[j].Source = source /\ ms[j].Target = target

\* The directories FindRoot probes when started in dir, in the order probed.
RECURSIVE Probed(_)
Probed(dir) ==
    IF StatOk(Join(dir, GitName)) \/ Dir(dir) = dir THEN <<dir>>
    ELSE <<dir>> \o Probed(Dir(dir))

\* A probe of the walk from the working directory failed for a reason other
\* than non-existence.
ProbeFailed ==
    \E i \in 1..Len(Probed(pwd)) : Stat(Join(Probed(pwd)[i], GitName)) = "err"

---------------------------------------------------------------------------
\* C1: every user-supplied volume expression of the authoritative source that
\* resolves to a valid binding is among the bindings handed to the engine and
\* among the mounts of the Result of a successful launch.
C1_UserVolumesMounted ==
    Handed =>
        \A i \in 1..Len(UserVolumes) :
            LET m == ParseVolume(UserVolumes[i])
            IN  m # NoMount =>
                    /\ HasBinding(created.Mounts, m.Source, m.Target)
                    /\ result.Success => HasBinding(result.Mounts, m.Source, m.Target)

\* C2: with discovery enabled and a root located at the working directory or
\* above it, a metadata directory that differs from <root>/.git is bound to
\* <root>/.git in the bindings handed to the engine.
C2_MetadataBinding ==
    (Handed /\ ~runCfg.NoGit /\ FindRoot(pwd).err = "") =>
        LET root == FindRoot(pwd).root
            real == FindRealGitDir(root)
        IN  (real.err = "" /\ real.dir # Join(root, GitName)) =>
                HasBinding(created.Mounts, real.dir, Join(root, GitName))

\* C3: when a probe of a marker fails for a reason other than non-existence,
\* discovery reports a failure of its own: neither a root nor "no repository".
C3_ProbeErrorDistinct ==
    (Handed /\ ~runCfg.NoGit /\ ProbeFailed) =>
        FindRoot(pwd).err \notin {"", "no git repository found"}


\* C4: in script mode the command handed to the engine is the script's command
\* followed by the positional arguments after the first, and every other field
\* of the launch is the script's, whatever the flags say.
C4_ScriptPrecedence ==
    (Handed /\ Len(args) > 0 /\ argStat = "file") =>
        LET script == ParseFile(scriptFile)
            sc == script.config
        IN  script.err = "" =>
                /\ created.Cmd = sc.Command \o Tail(args)
                /\ created.Image = sc.Image
                /\ created.Entrypoint = sc.Entrypoint
                /\ created.WorkingDir = IF sc.WorkingDir = <<>> THEN pwd ELSE sc.WorkingDir
                /\ created.Env = sc.Environment
                /\ created.User = sc.User
                /\ created.NetworkMode = sc.NetworkMode
                /\ created.Tty = sc.Interactive
                /\ created.OpenStdin = sc.Interactive
                /\ created.Privileged = sc.Privileged
                /\ runCfg.NoGit = sc.NoGit

\* A script launch with arguments after the script and every flag set.
C4_Witness ==
    /\ Handed /\ FirstArgIsScript
    /\ Len(args) >= 2
    /\ scriptFile.lines = FullScript
    /\ cli.noGit /\ cli.image # <<>> /\ cli.workingDir # <<>>

\* C5: the runner is invoked at most once; with the script's configuration
\* exactly when the first argument is a file that loads as a script, and in
\* every other case with the flags' configuration, all positional arguments as
\* the command, no script path and no script arguments.
C5_ModeDecidedOnce ==
    LET script == ParseFile(scriptFile)
        isScript == Len(args) > 0 /\ argStat = "file" /\ script.err = ""
    IN  /\ runCalls <= 1
        /\ runCalls = 1 =>
               IF isScript
               THEN runCfg = [script.config EXCEPT !.ScriptPath = args[1],
                                                   !.ScriptArgs = Tail(args)]
               ELSE runCfg = [FlagBinding(cli) EXCEPT !.Command = args]
        /\ (pc # "action" /\ ~isScript) => cfg.Command = args
        /\ (Handed /\ ~isScript) => created.Cmd = args
        /\ (result.Success /\ ~isScript) => result.ScriptPath = <<>>

\* A successful flag-mode launch whose first argument is a file that does not
\* load as a script.
C5_Witness ==
    /\ result.Success
    /\ Len(args) >= 2 /\ argStat = "file" /\ ParseFile(scriptFile).err # ""
    /\ created.Cmd = args

\* The image of the source that is authoritative for the invocation.
AuthoritativeImage == IF FirstArgIsScript THEN ScriptConfig.Image ELSE cli.image

\* C6: an invocation whose authoritative image is empty fails without any
\* operation of the engine; a script without an image does not load and none
\* of its fields is used.
C6_EmptyImageFatal ==
    /\ (pc # "action" /\ AuthoritativeImage = <<>>) =>
           (pc = "done" /\ exit = "failed" /\ runCalls = 0 /\ engine = <<>>)
    /\ engine # <<>> => (runCalls = 1 /\ runCfg.Image # <<>>)
    /\ (runCalls = 1 /\ argStat = "file" /\ scriptFile.lines = NoImageScript) =>
           runCfg = [FlagBinding(cli) EXCEPT !.Command = args]

\* A script without an image, and no image flag either: the invocation failed.
C6_Witness ==
    /\ pc = "done" /\ exit = "failed" /\ engine = <<>>
    /\ Len(args) > 0 /\ argStat = "file" /\ scriptFile.lines = NoImageScript
    /\ cli.image = <<>>

\* The create, start and wait operations performed, in order.
Phases ==
    SelectSeq(engine, LAMBDA c : c.op \in {"ContainerCreate", "ContainerStart", "ContainerWait"})

PhaseOrder == <<"ContainerCreate", "ContainerStart", "ContainerWait">>

\* C7: create, start and wait happen at most once each and in that order, each
\* only after the one before succeeded; a failed phase makes Run return an
\* error with the empty Result, and Success is reported only after all three
\* completed without error.
C7_PhasesOrdered ==
    /\ Len(Phases) <= 3
    /\ \A i \in 1..Len(Phases) : Phases[i].op = PhaseOrder[i]
    /\ \A i \in 2..Len(Phases) : Phases[i - 1].ok
    /\ (\E i \in 1..Len(Phases) : ~Phases[i].ok) =>
           (pc = "done" /\ runErr # "" /\ result = ZeroResult /\ exit = "failed")
    /\ result.Success =>
           (Len(Phases) = 3 /\ runErr = "" /\ \A i \in 1..3 : Phases[i].ok)

\* The wait failed after create and start succeeded.
C7_Witness ==
    /\ pc = "done"
    /\ DidOk("ContainerCreate") /\ DidOk("ContainerStart") /\ Failed("ContainerWait")
    /\ result = ZeroResult

\* C8: the bindings handed to the engine start with the read-write bind of
\* the working directory onto itself.
C8_PwdMountFirst ==
    Handed =>
        /\ Len(created.Mounts) >= 1
        /\ created.Mounts[1] =
               [Type |-> "bind", Source |-> pwd, Target |-> pwd, ReadOnly |-> FALSE]

\* A launch with discovery suppressed below a repository.
C8_Witness ==
    /\ Handed /\ runCfg.NoGit
    /\ FindRoot(pwd).err = "" /\ FindRoot(pwd).root # pwd
    /\ Len(created.Mounts) = 1

\* C9: the second binding is root -> root when discovery is enabled and
\* FindRoot finds a root other than the working directory; otherwise, and in
\* particular when the working directory holds a .git directory, the bindings
\* are the working-directory self-mount alone.
C9_RootMountWhenDistinct ==
    Handed =>
        LET found == FindRoot(pwd)
            distinct == ~runCfg.NoGit /\ found.err = "" /\ found.root # pwd
            self == <<BindMount(pwd, pwd)>>
        IN  /\ distinct => /\ Len(created.Mounts) >= 2
                           /\ created.Mounts[2] = BindMount(found.root, found.root)
            /\ ~distinct => created.Mounts = self
            /\ (runCfg.NoGit \/ found.err # "" \/ Stat(Join(pwd, GitName)) = "dir") =>
                   created.Mounts = self

\* Discovery enabled in a working directory that is itself a repository root.
C9_Witness ==
    /\ Handed /\ ~runCfg.NoGit
    /\ Stat(Join(pwd, GitName)) = "dir"
    /\ pwd # Slash /\ StatOk(Join(Dir(pwd), GitName))
    /\ Len(created.Mounts) = 1

\* The working directory and its ancestors.
AncestorsOrSelf(p) ==
    {q \in DOMAIN fs : fs[q] = "dir" /\ (q = p \/ q = Slash \/ HasPrefix(p, q \o Slash))}

\* Those of them that contain a .git file or directory.
Roots == {q \in AncestorsOrSelf(pwd) : Stat(Join(q, GitName)) \in {"dir", "file"}}

Nearest == CHOOSE q \in Roots : \A r \in Roots : Len(r) <= Len(q)

\* C10: FindRoot returns the nearest directory, among the start directory and
\* its ancestors, that contains a .git file or directory, and "no repository"
\* when there is none; without a repository the launch goes on with the
\* working-directory binding alone.
C10_NearestRoot ==
    LET roots == Roots
    IN  /\ IF roots = {}
           THEN FindRoot(pwd) = [root |-> <<>>, err |-> "no git repository found"]
           ELSE FindRoot(pwd) = [root |-> Nearest, err |-> ""]
        /\ (Handed /\ ~runCfg.NoGit /\ roots # {} /\ Nearest # pwd) => gitRoot = Nearest
        /\ (roots = {} /\ DidOk("NewClient") /\ pc \in {"Start", "Wait", "done"}
                /\ runErr # "failed to get current directory") =>
               /\ Handed
               /\ created.Mounts = <<BindMount(pwd, pwd)>>
               /\ gitRoot = <<>>
        /\ (roots = {} /\ DidOk("ContainerCreate") /\ DidOk("ContainerStart")
                /\ DidOk("ContainerWait")) => result.Success

\* The root is two levels above the working directory, past a directory
\* without a marker.
C10_Witness ==
    /\ Handed /\ ~runCfg.NoGit
    /\ Dir(pwd) # pwd /\ Dir(Dir(pwd)) # Dir(pwd)
    /\ gitRoot = Dir(Dir(pwd))

\* No repository at all, and the launch succeeded.
C10_WitnessNone ==
    /\ result.Success /\ ~runCfg.NoGit /\ Roots = {} /\ pwd # Slash


\* C15: after a successful launch the Result's repository root is the root
\* FindRoot located from the working directory whenever discovery is enabled
\* and a repository was located, and is absent otherwise.
C15_ResultGitRoot ==
    result.Success =>
        IF ~runCfg.NoGit /\ FindRoot(pwd).err = ""
        THEN result.GitRoot = FindRoot(pwd).root
        ELSE result.GitRoot = <<>>

\* C16: once a status or a wait error is delivered Run returns; an interrupt
\* reported on the error channel makes it return a failure; Run performs no
\* engine operation other than client creation, create, start, wait and the
\* client's Close, and every container is created with auto-removal.
C16_WaitEnds ==
    /\ (pc = "Wait" /\ delivery # "") ~> (pc = "done")
    /\ (pc = "Wait" /\ cancelled) ~> (pc = "done" /\ exit = "failed" /\ result = ZeroResult)
    /\ [](\A i \in 1..Len(engine) :
             engine[i].op \in {"NewClient", "ContainerCreate", "ContainerStart",
                               "ContainerWait", "Close"})
    /\ [](Handed => created.AutoRemove)

\* Run returned a failure after an interrupt during the wait.
C16_Witness ==
    /\ pc = "done" /\ cancelled /\ waited = "err"
    /\ exit = "failed" /\ DidOk("ContainerStart")

\* C18: whatever status the wait delivers (exit code zero or not, with or
\* without an error), Run returns Success with the same message, and the
\* invocation ends well.
C18_StatusIgnored ==
    (pc = "done" /\ waited \in {"status0", "status1", "statusError"}) =>
        /\ result.Success
        /\ result.Message = "Container executed successfully"
        /\ runErr = ""
        /\ exit = "ok"
        /\ result = [Success |-> TRUE, ContainerID |-> containerID, Image |-> runCfg.Image,
                     WorkingDir |-> created.WorkingDir, Mounts |-> MountInfo(mounts),
                     GitRoot |-> gitRoot, ScriptPath |-> runCfg.ScriptPath,
                     Message |-> "Container executed successfully"]

\* The container ended with a status carrying an error and the launch is a success.
C18_Witness ==
    /\ pc = "done" /\ waited = "statusError"
    /\ result.Success /\ exit = "ok"

---------------------------------------------------------------------------
\* Properties of the functions called on their own.

\* FindRoot found a root and FindRealGitDir has returned for it.
Resolved == upc = "done" /\ rootFound.err = ""

WorktreeFile == <<"gitdir:", " ", "/", "store", "/", "worktrees", "/", "x", "\n">>
NestedWorktreeFile ==
    <<"gitdir:", " ", "/", "store", "/", "worktrees", "/", "a", "/", "worktrees", "/", "b", "\n">>

\* C11: for a root whose .git is a directory FindRealGitDir returns <root>/.git;
\* for a root whose .git is a readable file it takes the first line that starts
\* with "gitdir: ", trims the text after "gitdir:", and returns what precedes the
\* first "/worktrees/" in it, or all of it when there is none; a file without
\* such a line gives <root>/.git.
C11_WorktreeResolution ==
    Resolved =>
        LET marker == Join(rootFound.root, GitName)
            lines == Split(gitFile.content, <<"\n">>)
            idx == {i \in 1..Len(lines) : HasPrefix(lines[i], GitdirPrefix)}
        IN  /\ Stat(marker) = "dir" => gitDirFound = [dir |-> marker, err |-> ""]
            /\ (Stat(marker) = "file" /\ gitFile.readable) =>
                  /\ gitDirFound.err = ""
                  /\ IF idx = {} THEN gitDirFound.dir = marker
                     ELSE LET first == CHOOSE i \in idx : \A j \in idx : i <= j
                              path == TrimSpace(Tail(lines[first]))
                              w == Index(path, WorktreesSep)
                          IN  gitDirFound.dir =
                                  IF w = 0 THEN path ELSE SubSeq(path, 1, w - 1)
                  /\ gitFile.content \in {WorktreeFile, NestedWorktreeFile}
                        => gitDirFound.dir = StoreDir
                  /\ gitFile.content = <<"gitdir:", " ", "/", "store", "\n">>
                        => gitDirFound.dir = StoreDir

C11_Witness ==
    /\ Resolved
    /\ Stat(Join(rootFound.root, GitName)) = "file"
    /\ gitFile.content = NestedWorktreeFile
    /\ gitDirFound = [dir |-> StoreDir, err |-> ""]

\* C12: whenever FindRealGitDir returns without error, the directory it returns
\* is an absolute path and is a directory of the host.
C12_RealDirectory ==
    (Resolved /\ gitDirFound.err = "") =>
        /\ IsAbs(gitDirFound.dir)
        /\ Stat(gitDirFound.dir) = "dir"

\* expandPath and ParseVolume have returned for the volume expression.
Parsed == upc = "done" /\ probes = <<>>

Colons == {i \in 1..Len(volume) : volume[i] = ":"}

\* The position of the k-th colon of the volume expression; 0 and Len + 1 bound it.
ColonAt(k) ==
    IF k = 0 THEN 0
    ELSE IF k > Cardinality(Colons) THEN Len(volume) + 1
    ELSE CHOOSE i \in Colons : Cardinality({j \in Colons : j < i}) = k - 1

\* The k-th colon-separated segment of the volume expression.
Segment(k) == SubSeq(volume, ColonAt(k - 1) + 1, ColonAt(k) - 1)

Segments == Cardinality(Colons) + 1

\* C13: ParseVolume returns no binding for an expression of fewer than two
\* colon-separated segments or whose expanded source does not exist; otherwise a
\* bind binding with the expanded first segment as source, the second segment as
\* target, and readOnly exactly when there are three segments and the third is "ro".
C13_VolumeResolution ==
    Parsed =>
        /\ IF Segments < 2 \/ ~StatOk(expanded)
           THEN parsed = NoMount
           ELSE parsed = [Type |-> "bind", Source |-> expanded, Target |-> Segment(2),
                          ReadOnly |-> (Segments = 3 /\ Segment(3) = <<"ro">>)]
        /\ volume = <<"/", "data", ":", "/", "mnt", ":", "ro">>
              => parsed = [Type |-> "bind", Source |-> DataDir,
                           Target |-> <<"/", "mnt">>, ReadOnly |-> TRUE]
        /\ volume = <<"/", "gone", ":", "/", "mnt">> => parsed = NoMount

C13_Witness ==
    /\ Parsed
    /\ volume = <<"~", "/", "..", "/", "data", ":", "/", "mnt", ":", "ro">>
    /\ parsed = [Type |-> "bind", Source |-> DataDir, Target |-> <<"/", "mnt">>,
                 ReadOnly |-> TRUE]

\* C14: for a path "~/x" expandPath returns <home>/x when the home directory is
\* known and the path itself when it is not.
C14_HomeExpansion ==
    (upc \in {"ParseVolume", "done"} /\ probes = <<>>
       /\ HasPrefix(volume, <<"~", "/">>)) =>
        LET path == Segment(1)
        IN  IF home # <<>>
            THEN expanded = JoinClean(home, SubSeq(path, 3, Len(path)))
            ELSE expanded = path

\* The number of segments of a clean absolute path.
Depth(p) == IF p = Slash THEN 0 ELSE Len(p) \div 2

\* The probes made so far are the start directory and then its ancestors, one
\* after the other, none of them below a marker already seen; once the walk is
\* over, it ended at a marker or at the directory that is its own parent.
WalkInOrder ==
    /\ Len(probes) <= Depth(pwd) + 1
    /\ probes # <<>> => probes[1] = pwd
    /\ \A i \in 1..Len(probes) - 1 :
          /\ probes[i + 1] = Dir(probes[i])
          /\ ~StatOk(Join(probes[i], GitName))
    /\ \A i, j \in 1..Len(probes) : i # j => probes[i] # probes[j]
    /\ (probes # <<>> /\ upc # "FindRoot") =>
          LET last == probes[Len(probes)]
          IN  /\ rootFound = FindRoot(pwd)
              /\ IF StatOk(Join(last, GitName))
                 THEN rootFound = [root |-> last, err |-> ""]
                 ELSE /\ Dir(last) = last
                      /\ rootFound = [root |-> <<>>, err |-> "no git repository found"]

\* C17: FindRoot probes the start directory and then each parent once, deepest
\* first, at most depth + 1 directories, and its loop ends: at the first directory
\* with a marker, or at the directory whose parent is itself.
C17_WalkTerminates ==
    /\ []WalkInOrder
    /\ (upc = "FindRoot") ~> (upc # "FindRoot")

C17_Witness ==
    /\ upc = "done"
    /\ Len(probes) = 3
    /\ probes[3] = Slash
    /\ rootFound.err = "no git repository found"

====
